---- MODULE Spec2Model ----
(***************************************************************************)
(* State-machine model of the dataset utilities of dpdi/datasets:          *)
(*   imdb_wiki.py   get_anno_df, get_transforms, IMDBWikiDataset           *)
(*   lfw_dataset.py apply_thresh, get_anno_df, get_lfw_transforms,         *)
(*                  LFWDataset                                             *)
(*                                                                         *)
(* A data frame is a sequence of row records (position = iloc position).   *)
(* A Python value that may be None is None (the empty tuple) or Some(x).   *)
(* A rational alpha is the pair <<numerator, denominator>>, denominator a  *)
(* power of two, so that the float products of the code are exact.         *)
(***************************************************************************)
EXTENDS Integers, Sequences, FiniteSets

VARIABLES
    meta,        \* IMDB-Wiki: the rows of meta.csv as read by pd.read_csv
    perm,        \* RandomState(TRAIN_TEST_SPLIT_SEED).permutation(len(meta))
    split,       \* result of the latest get_anno_df call, per is_train flag
    is_train,    \* IMDBWikiDataset.is_train
    normalize,   \* IMDBWikiDataset.normalize
    transform,   \* IMDBWikiDataset.transform
    anno,        \* IMDBWikiDataset.anno
    ret,         \* outcome of the latest IMDBWikiDataset method call
    t_args,      \* arguments of the calls of get_transforms / get_lfw_transforms
    t_imdb,      \* outcome of get_transforms(is_train, normalize)
    t_lfw,       \* outcome of get_lfw_transforms(partition, normalize)
    lfw_file,    \* LFW: the rows of lfw_attributes_cleaned.txt
    lfw,         \* the fields of the LFWDataset
    lfw_ret      \* outcome of the latest LFWDataset method call

splitVars == <<meta, perm, split>>
imdbVars == <<is_train, normalize, transform, anno, ret>>
tVars == <<t_args, t_imdb, t_lfw>>
lfwVars == <<lfw_file, lfw, lfw_ret>>
vars == <<splitVars, imdbVars, tVars, lfwVars>>

(***************************************************************************)
(* Bounds of the model and the inputs drawn from them.                     *)
(***************************************************************************)
MaxMeta == 3

None == <<>>
Some(x) == <<x>>

\* np.nan, as the one integer no gender code, label or row index takes.
NaN == -1

RawGenders == {"male", "female", ""}

\* meta.csv files of up to MaxMeta rows: row i has path i and age 20 + i.
MetaTables ==
    UNION {[1..n -> {[path |-> 0, gender |-> g, age |-> 0] : g \in RawGenders}]
           : n \in 0..MaxMeta}

RawMetas ==
    {[i \in 1..Len(m) |-> [path |-> i, gender |-> m[i].gender, age |-> 20 + i]]
     : m \in MetaTables}

Perms(n) ==
    {p \in [1..n -> 1..n] : \A i, j \in 1..n : p[i] = p[j] => i = j}

\* The mixing ratios tried: -1/2048, 0, 1/2048, 1/2, 1, 2 and None.
Alphas ==
    {None, <<0 - 1, 2048>>, <<0, 1>>, <<1, 2048>>, <<1, 2>>, <<1, 1>>, <<2, 1>>}

NTrains == {None} \cup {Some(k) : k \in 0..MaxMeta}

Idxs == (0 - 1)..(MaxMeta - 1)

(***************************************************************************)
(* imdb_wiki.py: get_anno_df                                               *)
(***************************************************************************)
\* random_state of the split; perm is the permutation a generator seeded with
\* it yields for len(meta) samples
TRAIN_TEST_SPLIT_SEED == 948292

\* meta_df.replace({"male": 1, "female": 0}); an empty field was read as NaN.
replace(g) ==
    IF g = "male" THEN 1 ELSE IF g = "female" THEN 0 ELSE NaN

replace_df(df) ==
    [i \in 1..Len(df) |->
        [path |-> df[i].path, gender |-> replace(df[i].gender), age |-> df[i].age]]

\* random_state=None: any permutation, anew on every call
UnseededShuffle == Perms(Len(meta))

\* The permutations a generator seeded with random_state can return for n
\* samples: a seeded generator is a function of the seed, so exactly one.
SeededShuffle == {perm}

\* sklearn train_test_split(df, train_size=0.9, random_state=seed), p the
\* permutation drawn: n_train = floor(0.9 n), n_test = n - n_train, the test
\* rows are permutation[:n_test] and the train rows the n_train after them.
train_test_split(df, p) ==
    LET n    == Len(df)
        ntr  == (9 * n) \div 10
        nte  == n - ntr
    IN  IF ntr = 0
        THEN [out |-> "ValueError", train |-> <<>>, test |-> <<>>]
        ELSE [out   |-> "ok",
              train |-> [i \in 1..ntr |-> df[p[nte + i]]],
              test  |-> [i \in 1..nte |-> df[p[i]]]]

get_anno_df(m, p, it) ==
    LET r == train_test_split(replace_df(m), p)
    IN  IF r.out # "ok"
        THEN [out |-> r.out, df |-> <<>>]
        ELSE [out |-> "ok", df |-> IF it THEN r.train ELSE r.test]

NoCall == [out |-> "none", df |-> <<>>]

(***************************************************************************)
(* imdb_wiki.py: get_transforms.  A pipeline is the sequence of its steps. *)
(***************************************************************************)
Step(kind, args) == [kind |-> kind, args |-> args]

Returned(v) == [out |-> "ok", val |-> v]
Raised(e) == [out |-> e, val |-> <<>>]

\* mean and std in millionths
imdb_mu == <<465727, 377981, 331473>>
imdb_std == <<286456, 254825, 248889>>

\* get_transforms without its "assert normalize"
UncheckedTransforms(it, nz) ==
    LET resize           == Step("Resize", <<80, 80>>)
        rotate           == Step("RandomRotation", <<30>>)
        crop_size        == <<64, 64>>
        random_crop      == Step("RandomCrop", crop_size)
        flip_aug         == Step("RandomHorizontalFlip", <<>>)
        normalize_transf == Step("Normalize", <<imdb_mu, imdb_std>>)
        center_crop      == Step("CenterCrop", crop_size)
        to_tensor        == Step("ToTensor", <<>>)
        transform_train  == <<resize, rotate, random_crop, flip_aug, to_tensor,
                              normalize_transf>>
        trasform_test    == <<resize, center_crop, to_tensor, normalize_transf>>
        transform_test_unnormalized == <<resize, center_crop, to_tensor>>
    IN  IF it THEN Returned(transform_train)
        ELSE IF nz THEN Returned(trasform_test)
        ELSE Returned(transform_test_unnormalized)

get_transforms(it, nz) ==
    LET resize           == Step("Resize", <<80, 80>>)
        rotate           == Step("RandomRotation", <<30>>)
        crop_size        == <<64, 64>>
        random_crop      == Step("RandomCrop", crop_size)
        flip_aug         == Step("RandomHorizontalFlip", <<>>)
        normalize_transf == Step("Normalize", <<imdb_mu, imdb_std>>)
        center_crop      == Step("CenterCrop", crop_size)
        to_tensor        == Step("ToTensor", <<>>)
        transform_train  == <<resize, rotate, random_crop, flip_aug, to_tensor,
                              normalize_transf>>
        trasform_test    == <<resize, center_crop, to_tensor, normalize_transf>>
        transform_test_unnormalized == <<resize, center_crop, to_tensor>>
    IN  IF it
        THEN IF ~nz THEN Raised("AssertionError") ELSE Returned(transform_train)
        ELSE IF nz THEN Returned(trasform_test)
        ELSE Returned(transform_test_unnormalized)

(***************************************************************************)
(* imdb_wiki.py: IMDBWikiDataset                                           *)
(***************************************************************************)
majority_group_keys == {1}
minority_group_keys == {0}

len(a) == Len(a)

filepaths(a) == [i \in 1..Len(a) |-> a[i].path]

attributes(a) == [i \in 1..Len(a) |-> a[i].gender]

\* np.expand_dims(values, 1): one 1-element vector per row
targets(a) == [i \in 1..Len(a) |-> <<a[i].age>>]

\* np.argwhere(np.isin(values, keys)).flatten(): the 0-based positions, ascending
argwhere_isin(values, keys) ==
    SelectSeq([i \in 1..Len(values) |-> i - 1],
              LAMBDA k : values[k + 1] \in keys)

majority_idxs(a) == argwhere_isin(attributes(a), majority_group_keys)

\* every row that is not of the majority group
NotMajorityIdxs(a) ==
    SelectSeq([i \in 1..Len(a) |-> i - 1],
              LAMBDA k : attributes(a)[k + 1] \notin majority_group_keys)

minority_idxs(a) == argwhere_isin(attributes(a), minority_group_keys)

\* arr[idx] of a 1-d numpy array: a negative idx counts from the end
InRange(arr, idx) == 0 - Len(arr) <= idx /\ idx < Len(arr)
At(arr, idx) == IF idx < 0 THEN arr[Len(arr) + idx + 1] ELSE arr[idx + 1]

\* self.transform(self.loader(os.path.join(root_dir, path)))
Image(path, steps) == [file |-> path, steps |-> steps]

\* df.iloc[idxs] for an array of 0-based positions
iloc(a, idxs) == [k \in 1..Len(idxs) |-> a[idxs[k] + 1]]

Range(s) == {s[i] : i \in 1..Len(s)}

\* np.random.choice(a, size=size, replace=False): raises ValueError for a
\* negative size or one above len(a); else any arrangement of size distinct
\* elements of a (the empty one of an empty a, NumPy 1.16 and later).
CanChoose(a, size) == 0 <= size /\ size <= Len(a)

\* replace=True: any elements of a, repeats allowed
ChoicesWithReplacement(a, size) == [1..size -> Range(a)]

Choices(a, size) ==
    {s \in [1..size -> Range(a)] : \A i, j \in 1..size : s[i] = s[j] => i = j}

\* int(x) of the float x = num / den, den > 0: truncation toward zero
int(num, den) == IF num >= 0 THEN num \div den ELSE 0 - ((0 - num) \div den)

Abs(x) == IF x < 0 THEN 0 - x ELSE x

Truthy(n_train) == n_train # None /\ n_train[1] # 0

\* the size of the whole table, rows of neither group included
WholeTableSizeCheck(a, n) == n <= Len(a)

\* assert n_train <= len(majority_idxs) + len(minority_idxs)
SizeCheck(a, n) == n <= Len(majority_idxs(a)) + Len(minority_idxs(a))

\* abs(float(n_min) / length - (1 - alpha)) < 0.001, alpha = alpha[1] / alpha[2]
RatioCheck(n_min, length, alpha) ==
    1000 * Abs(n_min * alpha[2] - length * (alpha[2] - alpha[1]))
        < length * alpha[2]

Ret(op, alpha, n_train, idx, out, val) ==
    [op |-> op, alpha |-> alpha, n_train |-> n_train, idx |-> idx,
     out |-> out, val |-> val]

NoRet == Ret("none", None, None, None, "none", <<>>)

\* __len__
Len_ ==
    /\ ret' = Ret("len", None, None, None, "ok", <<len(anno)>>)
    /\ UNCHANGED <<splitVars, tVars, lfwVars, is_train, normalize, transform, anno>>

\* the label looked up in the table as constructed, not in the current one
StaleTargetsGetItem(a, steps, idx) ==
    LET constructed == get_anno_df(meta, perm, is_train).df
    IN  IF ~InRange(filepaths(a), idx)
        THEN Raised("IndexError")
        ELSE Returned(<<Image(At(filepaths(a), idx), steps), idx,
                        At(targets(constructed), idx)>>)

\* __getitem__(idx)
getitem(a, steps, idx) ==
    IF ~InRange(filepaths(a), idx)
    THEN Raised("IndexError")
    ELSE Returned(<<Image(At(filepaths(a), idx), steps), idx, At(targets(a), idx)>>)

GetItem ==
    \E idx \in Idxs :
        LET r == getitem(anno, transform, idx)
        IN  /\ ret' = Ret("getitem", None, None, Some(idx), r.out, r.val)
            /\ UNCHANGED <<splitVars, tVars, lfwVars, is_train, normalize, transform, anno>>

\* apply_alpha_to_dataset(alpha, n_train)
ApplyAlpha ==
    \E alpha \in Alphas, n_train \in NTrains :
        LET R(out) == Ret("apply_alpha", alpha, n_train, None, out, <<>>)
            maj    == majority_idxs(anno)
            min    == minority_idxs(anno)
        IN  /\ UNCHANGED <<splitVars, tVars, lfwVars, is_train, normalize, transform>>
            /\ IF alpha = None
               THEN anno' = anno /\ ret' = R("ok")
               ELSE IF ~Truthy(n_train)
               THEN anno' = anno /\ ret' = R("NotImplementedError")
               ELSE IF ~SizeCheck(anno, n_train[1])
               THEN anno' = anno /\ ret' = R("AssertionError: size")
               ELSE
                 LET n     == n_train[1]
                     n_maj == int(alpha[1] * n, alpha[2])
                     n_min == n - n_maj
                 IN  IF ~CanChoose(maj, n_maj) \/ ~CanChoose(min, n_min)
                     THEN anno' = anno /\ ret' = R("ValueError")
                     ELSE \E sample_idx_1 \in Choices(maj, n_maj),
                             sample_idx_0 \in Choices(min, n_min) :
                            /\ anno' = iloc(anno, sample_idx_1 \o sample_idx_0)
                            /\ ret' = IF len(anno') # n_min + n_maj
                                      THEN R("AssertionError: subsetting")
                                      ELSE IF ~RatioCheck(Len(sample_idx_0),
                                                          len(anno'), alpha)
                                      THEN R("AssertionError: ratio")
                                      ELSE R("ok")

(***************************************************************************)
(* lfw_dataset.py: get_lfw_transforms                                      *)
(***************************************************************************)
lfw_mu_data == <<463666, 390829, 339801>>
lfw_std_data == <<282721, 253934, 247486>>

\* get_lfw_transforms with the test of normalize inverted
SwappedNormalizeFlag(partition, nz) ==
    LET im_size       == <<80, 80>>
        crop_size     == <<64, 64>>
        resize        == Step("Resize", im_size)
        rotate        == Step("RandomRotation", <<30>>)
        random_crop   == Step("RandomCrop", crop_size)
        flip_aug      == Step("RandomHorizontalFlip", <<>>)
        normalize_aug == Step("Normalize", <<lfw_mu_data, lfw_std_data>>)
        center_crop   == Step("CenterCrop", crop_size)
        to_tensor     == Step("ToTensor", <<>>)
        transform_train == <<resize, rotate, random_crop, flip_aug, to_tensor,
                             normalize_aug>>
        transform_test  == <<resize, center_crop, to_tensor, normalize_aug>>
        transform_test_unnormalized == <<resize, center_crop, to_tensor>>
    IN  IF partition = "train" THEN Returned(transform_train)
        ELSE IF partition = "test"
        THEN IF nz THEN Returned(transform_test_unnormalized)
             ELSE Returned(transform_test)
        ELSE Raised("ValueError")

get_lfw_transforms(partition, nz) ==
    LET im_size       == <<80, 80>>
        crop_size     == <<64, 64>>
        resize        == Step("Resize", im_size)
        rotate        == Step("RandomRotation", <<30>>)
        random_crop   == Step("RandomCrop", crop_size)
        flip_aug      == Step("RandomHorizontalFlip", <<>>)
        normalize_aug == Step("Normalize", <<lfw_mu_data, lfw_std_data>>)
        center_crop   == Step("CenterCrop", crop_size)
        to_tensor     == Step("ToTensor", <<>>)
        transform_train == <<resize, rotate, random_crop, flip_aug, to_tensor,
                             normalize_aug>>
        transform_test  == <<resize, center_crop, to_tensor, normalize_aug>>
        transform_test_unnormalized == <<resize, center_crop, to_tensor>>
    IN  IF partition = "train" THEN Returned(transform_train)
        ELSE IF partition = "test"
        THEN IF ~nz THEN Returned(transform_test_unnormalized)
             ELSE Returned(transform_test)
        ELSE Raised("ValueError")

(***************************************************************************)
(* lfw_dataset.py: apply_thresh, get_anno_df, LFWDataset                   *)
(***************************************************************************)
\* df[colname] of one row; Mouth_Open exists once get_anno_df has derived it
Col(row, colname) ==
    CASE colname = "Male" -> row.Male
      [] colname = "Mouth_Closed" -> row.Mouth_Closed
      [] colname = "Mouth_Open" -> row.Mouth_Open

apply_thresh(df, colname, thresh, use_abs) ==
    IF use_abs
    THEN SelectSeq(df, LAMBDA r : Abs(Col(r, colname)) >= thresh)
    ELSE SelectSeq(df, LAMBDA r : Col(r, colname) >= thresh)

\* the index of peopleDevTrain.txt and of peopleDevTest.txt
peopleDevTrain == {"P_Q"}
peopleDevTest == {"R"}

\* x.replace(" ", "_")
underscored(person) == IF person = "P Q" THEN "P_Q" ELSE person

derive_columns(df) ==
    [i \in 1..Len(df) |->
        LET person == underscored(df[i].person)
        IN  [person       |-> person,
             imagenum     |-> df[i].imagenum,
             img_basepath |-> <<person, person, df[i].imagenum>>,
             Male         |-> df[i].Male,
             Mouth_Closed |-> df[i].Mouth_Closed,
             Mouth_Open   |-> 1 - df[i].Mouth_Closed]]

\* "if label_threshold:" is false for None and for 0
lfw_get_anno_df(file, partition, label_colname, label_threshold) ==
    LET thresholded ==
            IF label_threshold # None /\ label_threshold[1] # 0
            THEN apply_thresh(file, label_colname, label_threshold[1], TRUE)
            ELSE file
        anno_df == derive_columns(thresholded)
    IN  IF partition = "train"
        THEN [out |-> "ok",
              df  |-> SelectSeq(anno_df, LAMBDA r : r.person \in peopleDevTrain)]
        ELSE IF partition = "test"
        THEN [out |-> "ok",
              df  |-> SelectSeq(anno_df, LAMBDA r : r.person \in peopleDevTest)]
        ELSE [out |-> "ValueError", df |-> <<>>]

\* _revalue_fn(x) with self.threshold = t
revalue_fn(x, t) ==
    IF x < 0 - t THEN 0 ELSE IF x > t THEN 1 ELSE NaN

\* LFWDataset.get_attribute_annotations(idxs), idxs a list of positions
get_attribute_annotations(d, idxs) ==
    IF \E k \in 1..Len(idxs) : ~InRange(d.anno, idxs[k])
    THEN Raised("IndexError")
    ELSE IF d.threshold = None /\ Len(idxs) > 0
    THEN Raised("TypeError")
    ELSE Returned([k \in 1..Len(idxs) |->
            revalue_fn(Col(At(d.anno, idxs[k]), d.attribute_colname),
                       d.threshold[1])])

(***************************************************************************)
(* Inputs of the LFW model.                                                *)
(***************************************************************************)
MaxThresh == 1
MaxLfwRows == 2

LfwValues == (0 - MaxThresh - 1)..(MaxThresh + 1)

LfwFiles ==
    LET cells == [person : {"P Q", "R"}, Male : LfwValues, Mouth_Closed : LfwValues]
    IN  {[i \in 1..Len(f) |->
            [person |-> f[i].person, imagenum |-> i, Male |-> f[i].Male,
             Mouth_Closed |-> f[i].Mouth_Closed]]
         : f \in UNION {[1..n -> cells] : n \in 0..MaxLfwRows}}

Thresholds == {None} \cup {Some(t) : t \in 1..MaxThresh}

LfwIdxs ==
    {<<i>> : i \in 0..(MaxLfwRows - 1)} \cup {[k \in 1..MaxLfwRows |-> k - 1]}

Partitions == {"train", "test", "val", "all"}

(***************************************************************************)
(* The idle values of the parts a specification does not exercise.         *)
(***************************************************************************)
NoResult == [out |-> "none", val |-> <<>>]

SplitIdle ==
    /\ meta = <<>>
    /\ perm = <<>>
    /\ split = [it \in BOOLEAN |-> NoCall]

ImdbIdle ==
    /\ is_train = FALSE
    /\ normalize = FALSE
    /\ transform = <<>>
    /\ anno = <<>>
    /\ ret = NoRet

TIdle ==
    /\ t_args = <<>>
    /\ t_imdb = NoResult
    /\ t_lfw = NoResult

LfwIdle ==
    /\ lfw_file = <<>>
    /\ lfw = <<>>
    /\ lfw_ret = NoResult

(***************************************************************************)
(* Spec: an IMDBWikiDataset and its methods.                               *)
(***************************************************************************)
\* The perms tried for the seeded shuffle behind a constructed dataset.
DatasetPerms(n) == {[i \in 1..n |-> i], [i \in 1..n |-> n + 1 - i]}

\* IMDBWikiDataset(root_dir, is_train, normalize), for every meta.csv for
\* which neither get_anno_df nor get_transforms raises.
Init ==
    /\ meta \in RawMetas
    /\ perm \in DatasetPerms(Len(meta))
    /\ is_train \in BOOLEAN
    /\ normalize \in BOOLEAN
    /\ get_anno_df(meta, perm, is_train).out = "ok"
    /\ get_transforms(is_train, normalize).out = "ok"
    /\ anno = get_anno_df(meta, perm, is_train).df
    /\ transform = get_transforms(is_train, normalize).val
    /\ split = [it \in BOOLEAN |-> NoCall]
    /\ ret = NoRet
    /\ TIdle
    /\ LfwIdle

Next == Len_ \/ GetItem \/ ApplyAlpha

Spec == Init /\ [][Next]_vars

(***************************************************************************)
(* SpecSplit: calls of imdb_wiki.get_anno_df on one meta.csv.              *)
(***************************************************************************)
GetAnnoDf ==
    \E it \in BOOLEAN, p \in SeededShuffle :
        /\ split' = [split EXCEPT ![it] = get_anno_df(meta, p, it)]
        /\ UNCHANGED <<meta, perm, imdbVars, tVars, lfwVars>>

SplitInit ==
    /\ meta \in RawMetas
    /\ perm \in Perms(Len(meta))
    /\ split = [it \in BOOLEAN |-> NoCall]
    /\ ImdbIdle
    /\ TIdle
    /\ LfwIdle

SplitNext == GetAnnoDf

SpecSplit == SplitInit /\ [][SplitNext]_vars

(***************************************************************************)
(* SpecTransforms: calls of get_transforms and get_lfw_transforms.         *)
(***************************************************************************)
GetTransforms ==
    /\ t_imdb' = get_transforms(t_args.is_train, t_args.normalize)
    /\ UNCHANGED <<splitVars, imdbVars, lfwVars, t_args, t_lfw>>

GetLfwTransforms ==
    /\ t_lfw' = get_lfw_transforms(t_args.partition, t_args.lfw_normalize)
    /\ UNCHANGED <<splitVars, imdbVars, lfwVars, t_args, t_imdb>>

TInit ==
    /\ t_args \in [is_train : BOOLEAN, normalize : BOOLEAN,
                   partition : Partitions, lfw_normalize : BOOLEAN]
    /\ t_imdb = NoResult
    /\ t_lfw = NoResult
    /\ SplitIdle
    /\ ImdbIdle
    /\ LfwIdle

TNext == GetTransforms \/ GetLfwTransforms

SpecTransforms == TInit /\ [][TNext]_vars

(***************************************************************************)
(* SpecLFW: an LFWDataset and get_attribute_annotations.                   *)
(***************************************************************************)
GetAttributeAnnotations ==
    \E idxs \in LfwIdxs :
        LET r == get_attribute_annotations(lfw, idxs)
        IN  /\ lfw_ret' = [op |-> "get_attribute_annotations", idxs |-> idxs,
                           out |-> r.out, val |-> r.val]
            /\ UNCHANGED <<splitVars, imdbVars, tVars, lfw_file, lfw>>

\* LFWDataset(root_dir, target_colname, attribute_colname, label_threshold,
\* partition=partition)
LfwInit ==
    /\ lfw_file \in LfwFiles
    /\ \E partition \in {"train", "test"},
          target_colname \in {"Male", "Mouth_Closed"},
          attribute_colname \in {"Male", "Mouth_Closed", "Mouth_Open"},
          label_threshold \in Thresholds :
          lfw = [anno |-> lfw_get_anno_df(lfw_file, partition, target_colname,
                                          label_threshold).df,
                 target_colname |-> target_colname,
                 attribute_colname |-> attribute_colname,
                 threshold |-> label_threshold]
    /\ lfw_ret = [op |-> "none", idxs |-> <<>>, out |-> "none", val |-> <<>>]
    /\ SplitIdle
    /\ ImdbIdle
    /\ TIdle

LfwNext == GetAttributeAnnotations

SpecLFW == LfwInit /\ [][LfwNext]_vars

(***************************************************************************)
(* Vocabulary of the properties of IMDBWikiDataset.                        *)
(***************************************************************************)
\* the annotation table the constructor stored
Anno0 == get_anno_df(meta, perm, is_train).df

Rows(a) == {a[i] : i \in 1..Len(a)}

NoRowTwice(a) == \A i, j \in 1..Len(a) : a[i] = a[j] => i = j

CountRows(a, keys) == Cardinality({i \in 1..Len(a) : a[i].gender \in keys})

\* floor and truncation of num / den, den > 0, by their defining inequalities
FloorQuot(num, den) ==
    CHOOSE q \in (0 - Abs(num) - 1)..Abs(num) : q * den <= num /\ num < (q + 1) * den

TruncQuot(num, den) ==
    IF num >= 0 THEN FloorQuot(num, den) ELSE 0 - FloorQuot(0 - num, den)

InUnitInterval(alpha) == 0 <= alpha[1] /\ alpha[1] <= alpha[2]

\* the latest call was apply_alpha_to_dataset(alpha, n_train) with alpha not
\* None and n_train a positive integer
AppliedAlpha ==
    /\ ret.op = "apply_alpha"
    /\ ret.alpha # None
    /\ ret.n_train # None
    /\ ret.n_train[1] > 0

ReturnedNormally == AppliedAlpha /\ ret.out = "ok"

\* C1 (as stated): after apply_alpha_to_dataset(alpha, n_train) with alpha not
\* None and n_train positive returns normally, the table has exactly n_train
\* rows, floor(alpha * n_train) of the majority group and the other
\* n_train - floor(alpha * n_train) of the minority group.
C1_FloorGroupSizes ==
    ReturnedNormally =>
        LET n == ret.n_train[1]
            f == FloorQuot(ret.alpha[1] * n, ret.alpha[2])
        IN  /\ Len(anno) = n
            /\ CountRows(anno, majority_group_keys) = f
            /\ CountRows(anno, minority_group_keys) = n - f

\* C1 (amended): the same with int(alpha * n_train), the product truncated
\* toward zero, in place of its floor; the two agree whenever alpha >= 0.
C1_TruncGroupSizes ==
    ReturnedNormally =>
        LET n == ret.n_train[1]
            t == TruncQuot(ret.alpha[1] * n, ret.alpha[2])
        IN  /\ Len(anno) = n
            /\ CountRows(anno, majority_group_keys) = t
            /\ CountRows(anno, minority_group_keys) = n - t
            /\ (ret.alpha[1] >= 0 => t = FloorQuot(ret.alpha[1] * n, ret.alpha[2]))

\* a call returned normally with rows of both groups in the result
C1_Witness ==
    /\ ReturnedNormally
    /\ CountRows(anno, majority_group_keys) > 0
    /\ CountRows(anno, minority_group_keys) > 0

\* C2: for alpha in [0, 1] and n_train >= 1 within the size check, the final
\* sanity assertion (minority fraction within 0.001 of 1 - alpha) never fails.
C2_RatioAssertionNeverFails ==
    (AppliedAlpha /\ InUnitInterval(ret.alpha)) => ret.out # "AssertionError: ratio"

\* C3: __len__ is the number of rows of the current table; __getitem__(idx),
\* 0 <= idx < __len__, returns (image, idx, label) with the image path and the
\* label of the row at position idx, and leaves the table unchanged.
C3_LenAndGetItem ==
    [][/\ ret'.op = "len" => ret'.out = "ok" /\ ret'.val = <<Len(anno)>>
       /\ (ret'.op = "getitem" /\ 0 <= ret'.idx[1] /\ ret'.idx[1] < Len(anno)) =>
            LET row == anno[ret'.idx[1] + 1]
            IN  /\ ret'.out = "ok"
                /\ ret'.val = <<Image(row.path, transform), ret'.idx[1], <<row.age>>>>
                /\ anno' = anno]_vars

\* __getitem__ returned the last row of a table that a subsampling reordered
C3_Witness ==
    /\ ret.op = "getitem"
    /\ ret.out = "ok"
    /\ ret.idx[1] = Len(anno) - 1
    /\ Len(anno) = 2
    /\ anno # Anno0

\* C7: a call that returns normally with alpha not None leaves only rows of the
\* table before the call (hence of the table at construction), none of them
\* twice, each of the majority or of the minority group.
C7_WithoutReplacement ==
    [][(ret'.op = "apply_alpha" /\ ret'.alpha # None /\ ret'.out = "ok") =>
         /\ Rows(anno') \subseteq Rows(anno)
         /\ Rows(anno') \subseteq Rows(Anno0)
         /\ NoRowTwice(anno')
         /\ \A r \in Rows(anno') :
                r.gender \in majority_group_keys \cup minority_group_keys]_vars

\* a normal return that kept one row of a table of two, the other of neither
\* group
C7_Witness ==
    /\ ReturnedNormally
    /\ Len(anno) = 1
    /\ Len(Anno0) = 2
    /\ \E r \in Rows(Anno0) : r.gender = NaN

\* C8 (as stated): for alpha in [0, 1] and 1 <= n_train <= majority + minority
\* rows, sampling without replacement never fails.
C8_SamplingNeverFails ==
    (AppliedAlpha /\ InUnitInterval(ret.alpha) /\ SizeCheck(anno, ret.n_train[1]))
        => ret.out # "ValueError"

\* C8 (amended): for such alpha and n_train the two requests are non-negative
\* and sum to n_train, so at most one of them exceeds its group; sampling fails
\* exactly when one does.
C8_AtMostOneGroupShort ==
    (AppliedAlpha /\ InUnitInterval(ret.alpha)
        /\ ret.out \in {"ValueError", "ok", "AssertionError: ratio"}) =>
        LET n       == ret.n_train[1]
            n_maj   == TruncQuot(ret.alpha[1] * n, ret.alpha[2])
            n_min   == n - n_maj
            fits    == ret.out # "ValueError"
            \* a failed sampling left the table as it was before the call
            majLeft == CountRows(anno, majority_group_keys)
            minLeft == CountRows(anno, minority_group_keys)
        IN  /\ 0 <= n_maj /\ 0 <= n_min
            /\ fits => Len(anno) = n
            /\ ~fits => (n_maj > majLeft) # (n_min > minLeft)
            /\ ~fits => n <= majLeft + minLeft

\* the size check passed and the sampling failed
C8_Witness ==
    /\ AppliedAlpha
    /\ InUnitInterval(ret.alpha)
    /\ ret.out = "ValueError"
    /\ SizeCheck(anno, ret.n_train[1])

\* C9: apply_alpha_to_dataset leaves the table unchanged when alpha is None
\* and whenever it raises.
C9_ChangesOnlyOnSuccess ==
    [][(ret'.op = "apply_alpha" /\ (ret'.alpha = None \/ ret'.out # "ok"))
          => anno' = anno]_vars

(***************************************************************************)
(* Properties of imdb_wiki.get_anno_df.                                    *)
(***************************************************************************)
\* C4: with the fixed seed, get_anno_df returns the same result on every call
\* for the same meta table, and the train rows and the test rows it returns
\* are disjoint and together hold every row of the meta table exactly once.
C4_SplitDeterministicPartition ==
    [][/\ \A it \in BOOLEAN :
            (split[it].out # "none" /\ split'[it].out # "none")
                => split'[it] = split[it]
       /\ (split'[TRUE].out = "ok" /\ split'[FALSE].out = "ok") =>
            LET both == split'[TRUE].df \o split'[FALSE].df
                rows == replace_df(meta)
            IN  /\ Rows(split'[TRUE].df) \cap Rows(split'[FALSE].df) = {}
                /\ \A i \in 1..Len(rows) :
                      Cardinality({k \in 1..Len(both) : both[k] = rows[i]}) = 1
                /\ Len(both) = Len(rows)]_vars

\* both parts of a three-row table were returned, under a shuffle that moved rows
C4_Witness ==
    /\ split[TRUE].out = "ok"
    /\ split[FALSE].out = "ok"
    /\ Len(meta) = 3
    /\ Len(split[TRUE].df) = 2
    /\ perm # <<1, 2, 3>>

(***************************************************************************)
(* Properties of the transform pipelines.                                  *)
(***************************************************************************)
Kinds(pipeline) == [i \in 1..Len(pipeline) |-> pipeline[i].kind]

TrainKinds ==
    <<"Resize", "RandomRotation", "RandomCrop", "RandomHorizontalFlip",
      "ToTensor", "Normalize">>

TestKinds(nz) ==
    IF nz THEN <<"Resize", "CenterCrop", "ToTensor", "Normalize">>
    ELSE <<"Resize", "CenterCrop", "ToTensor">>

RandomKinds == {"RandomRotation", "RandomCrop", "RandomHorizontalFlip"}

NoRandomStep(r) == \A i \in 1..Len(r.val) : r.val[i].kind \notin RandomKinds

\* what the claim requires of get_lfw_transforms(partition, normalize)
LfwPipelineAsSpecified ==
    t_lfw.out # "none" =>
        IF t_args.partition = "train"
        THEN t_lfw.out = "ok" /\ Kinds(t_lfw.val) = TrainKinds
        ELSE IF t_args.partition = "test"
        THEN /\ t_lfw.out = "ok"
             /\ Kinds(t_lfw.val) = TestKinds(t_args.lfw_normalize)
             /\ NoRandomStep(t_lfw)
        ELSE t_lfw.out = "ValueError"

\* C5 (as stated): both functions return the train steps for train and, for
\* test, resize, center crop, to-tensor, then normalize exactly when normalize
\* is true; no test pipeline has a random step; get_lfw_transforms raises
\* ValueError for a partition other than 'train' and 'test'.
C5_PipelineByFlag ==
    /\ LfwPipelineAsSpecified
    /\ t_imdb.out # "none" =>
        /\ t_imdb.out = "ok"
        /\ IF t_args.is_train
           THEN Kinds(t_imdb.val) = TrainKinds
           ELSE Kinds(t_imdb.val) = TestKinds(t_args.normalize) /\ NoRandomStep(t_imdb)

\* C5 (amended): as stated, except that get_transforms returns the train steps
\* only for train with normalize true and raises AssertionError for train with
\* normalize false.
C5_PipelineByFlagUnlessUnnormalizedTrain ==
    /\ LfwPipelineAsSpecified
    /\ t_imdb.out # "none" =>
        IF t_args.is_train
        THEN IF t_args.normalize
             THEN t_imdb.out = "ok" /\ Kinds(t_imdb.val) = TrainKinds
             ELSE t_imdb.out = "AssertionError"
        ELSE /\ t_imdb.out = "ok"
             /\ Kinds(t_imdb.val) = TestKinds(t_args.normalize)
             /\ NoRandomStep(t_imdb)

\* get_transforms was called for train without normalize, get_lfw_transforms
\* for an unknown partition
C5_Witness ==
    /\ t_imdb.out = "AssertionError"
    /\ t_lfw.out = "ValueError"

\* both functions were called on one combination of train/test and normalize
SameCombination ==
    /\ t_imdb.out # "none"
    /\ t_lfw.out # "none"
    /\ t_args.partition = (IF t_args.is_train THEN "train" ELSE "test")
    /\ t_args.lfw_normalize = t_args.normalize

SameOutcome ==
    \/ t_imdb.out = "ok" /\ t_lfw.out = "ok" /\ Kinds(t_imdb.val) = Kinds(t_lfw.val)
    \/ t_imdb.out # "ok" /\ t_lfw.out # "ok"

\* C6 (as stated): on every combination of train/test and normalize the two
\* functions return pipelines of the same step kinds in the same order, or
\* both reject the combination.
C6_SameOutcome == SameCombination => SameOutcome

\* C6 (amended): so on every combination but train with normalize false; on
\* that one get_transforms raises AssertionError and get_lfw_transforms
\* returns the train pipeline.
C6_SameOutcomeUnlessUnnormalizedTrain ==
    SameCombination =>
        IF t_args.is_train /\ ~t_args.normalize
        THEN /\ t_imdb.out = "AssertionError"
             /\ t_lfw.out = "ok"
             /\ Kinds(t_lfw.val) = TrainKinds
        ELSE SameOutcome

\* both were called for test without normalize and returned
C6_Witness ==
    /\ SameCombination
    /\ ~t_args.is_train
    /\ ~t_args.normalize
    /\ t_imdb.out = "ok"
    /\ t_lfw.out = "ok"

(***************************************************************************)
(* Properties of LFWDataset.                                               *)
(***************************************************************************)
\* C10: with a positive label_threshold t and attribute_colname equal to
\* target_colname, every row kept in the table has |value| >= t in that column
\* and gets from get_attribute_annotations 0 when the value is negative and 1
\* when it is positive, never NaN.
C10_FilterAndRevalueAgree ==
    (/\ lfw_ret.op = "get_attribute_annotations"
     /\ lfw_ret.out = "ok"
     /\ lfw.threshold # None
     /\ lfw.threshold[1] > 0
     /\ lfw.attribute_colname = lfw.target_colname) =>
        \A k \in 1..Len(lfw_ret.idxs) :
            LET v == Col(At(lfw.anno, lfw_ret.idxs[k]), lfw.attribute_colname)
            IN  /\ Abs(v) >= lfw.threshold[1]
                /\ lfw_ret.val[k] # NaN
                /\ v < 0 => lfw_ret.val[k] = 0
                /\ v > 0 => lfw_ret.val[k] = 1

====
